---- MODULE Spec2Model ----
(***************************************************************************)
(* Model of PSQLConnector (src/PSQL_connector.py): one wrapper instance,   *)
(* the database connections it creates through psycopg2.connect, and the   *)
(* database server it talks to.  Every method of the class is one action;  *)
(* the server's decisions (accept the login, run a statement, drop a       *)
(* connection) are inputs of the actions or actions of the environment.    *)
(***************************************************************************)
EXTENDS Integers, Sequences, FiniteSets

VARIABLES
    schema,         \* self.schema, as given to __init__
    connection,     \* self.connection: NoConnection (None) or the id of a connection object
    conns,          \* every connection object psycopg2.connect has returned, by id
    pc,             \* position of the caller relative to a with-block: "outside" or "body"
    last            \* the last call made on the wrapper and how it ended

vars == <<schema, connection, conns, pc, last>>

---------------------------------------------------------------------------
(* Bounds *)

\* Connection objects created in one behaviour.
MaxConns == 2
\* Queries a single connection sends to the server.
MaxQueries == 1

---------------------------------------------------------------------------
(* Values *)

NoConnection == 0               \* self.connection = None
NoSchema == "<None>"            \* schema = None, the default of __init__

\* Schemas the caller may pass: None, the empty string, a well-formed name,
\* and a name that is not a valid identifier in a SET statement.
Schemas == {NoSchema, "", "restaurant", "my-schema"}

\* The server parses "SET search_path TO <schema>": a well-formed identifier is accepted.
WellFormedSchema(s) == s = "restaurant"

RowCap == 50000
DefaultFirstNRows == 1000

\* Arguments a caller passes as first_n_rows.
FirstNRows == {-1, 10, RowCap, 100000}

\* Query strings a caller passes to execute_query.
CallerQueries == {"SELECT 1", "SELEC oops"}

MsgConnected == "Successfully connected to PostgreSQL database"
MsgConnectError == "Error connecting to PostgreSQL database: "
MsgClosed == "PostgreSQL connection closed"
MsgQueryError == "Error executing query: "

\* Rows a table can hold.
TableRows == {0, 3}

\* pd.DataFrame(): no rows, no columns.
EmptyDataFrame == [rows |-> 0, cols |-> <<>>]

\* A connection object as psycopg2.connect returns it.
\*   closed    the object's .closed attribute: 0 open, 1 closed, 2 broken
\*   alive     the server still holds the session
\*   aborted   the connection's transaction is in the failed state
\*   stmts     the statements the connection has sent to the server, in order:
\*             a SET statement in full, a query as the mark <<"query">>
\*   closedBy  what closed the object: "", "disconnect" or "finalizer"
NewConnection == [closed |-> 0, alive |-> TRUE, aborted |-> FALSE, stmts |-> <<>>, closedBy |-> ""]

\* The record kept of a call: op, the argument as the caller gave it (<<>>
\* when none), outcome ("returned" or "raised"), the exception raised or
\* swallowed, the stage of connect() that failed, the lines printed by the
\* call, the query handed to _execute_query, the value returned.
Call(op, arg, outcome, exc, stage, printed, query, result) ==
    [op |-> op, arg |-> arg, outcome |-> outcome, exc |-> exc, stage |-> stage,
     printed |-> printed, query |-> query, result |-> result]

---------------------------------------------------------------------------
(* __init__ *)

Init ==
    /\ schema \in Schemas
    /\ connection = NoConnection
    /\ conns = <<>>
    /\ pc = "outside"
    /\ last = Call("__init__", <<>>, "returned", "", "", <<>>, <<>>, <<>>)

---------------------------------------------------------------------------
(* connect *)

\* `if self.schema:` -- None and the empty string are both false.
SchemaTruthy_never(s) == FALSE
SchemaTruthy(s) == s # NoSchema /\ s # ""

\* f"SET search_path TO {self.schema}"
SetSearchPath(s) == <<"SET search_path TO ", s>>

\* The connection objects after self.connection is rebound from `old` to a
\* new object: the old object, when still open, is closed by its finalizer
\* if nothing else refers to it (finalized), and stays open otherwise.
Rebind(cs, old, finalized) ==
    IF old # NoConnection /\ cs[old].closed = 0 /\ finalized
    THEN [cs EXCEPT ![old].closed = 1, ![old].alive = FALSE, ![old].closedBy = "finalizer"]
    ELSE cs

\* The body of connect(), run on behalf of `op` (connect or __enter__).
\*   accepted   whether the server is reachable and accepts the stored credentials
\*   finalized  whether the connection object that self.connection held is collected
\*   dropped    whether the server drops the new session before the SET statement
connect_body(op, accepted) ==
    IF ~accepted
    THEN \* psycopg2.connect raises OperationalError: nothing is assigned
         /\ last' = Call(op, <<>>, "raised", "OperationalError", "open", <<MsgConnectError>>, <<>>, <<>>)
         /\ UNCHANGED <<connection, conns>>
    ELSE /\ Len(conns) < MaxConns
         /\ \E finalized \in BOOLEAN, dropped \in BOOLEAN :
            LET id == Len(conns) + 1
                rebound == Rebind(conns, connection, finalized)
            IN /\ connection' = id
               /\ IF ~SchemaTruthy(schema)
                  THEN /\ conns' = Append(rebound, NewConnection)
                       /\ last' = Call(op, <<>>, "returned", "", "", <<MsgConnected>>, <<>>, <<>>)
                  ELSE IF dropped
                  THEN \* cursor.execute raises OperationalError: logged and re-raised
                       /\ conns' = Append(rebound, [NewConnection EXCEPT !.closed = 2, !.alive = FALSE])
                       /\ last' = Call(op, <<>>, "raised", "OperationalError", "search_path", <<MsgConnectError>>, <<>>, <<>>)
                  ELSE IF ~WellFormedSchema(schema)
                  THEN \* cursor.execute raises ProgrammingError: not an OperationalError
                       /\ conns' = Append(rebound, [NewConnection EXCEPT !.aborted = TRUE,
                                                                        !.stmts = <<SetSearchPath(schema)>>])
                       /\ last' = Call(op, <<>>, "raised", "ProgrammingError", "search_path", <<>>, <<>>, <<>>)
                  ELSE /\ conns' = Append(rebound, [NewConnection EXCEPT !.stmts = <<SetSearchPath(schema)>>])
                       /\ last' = Call(op, <<>>, "returned", "", "", <<MsgConnected>>, <<>>, <<>>)

connect ==
    /\ \E accepted \in BOOLEAN : connect_body("connect", accepted)
    /\ UNCHANGED <<schema, pc>>

---------------------------------------------------------------------------
(* disconnect *)

\* `if self.connection and not self.connection.closed:`
ShouldClose_ignoreClosed(c, cs) == c # NoConnection
ShouldClose(c, cs) == c # NoConnection /\ cs[c].closed = 0

\* The body of disconnect(), run on behalf of `op` (disconnect or __exit__);
\* `exc` is the exception in flight when __exit__ runs, "" otherwise.
disconnect_body(op, exc) ==
    /\ IF ShouldClose(connection, conns)
       THEN /\ conns' = [conns EXCEPT ![connection].closed = 1,
                                      ![connection].alive = FALSE,
                                      ![connection].closedBy = "disconnect"]
            /\ last' = Call(op, <<>>, "returned", exc, "", <<MsgClosed>>, <<>>, <<>>)
       ELSE /\ conns' = conns
            /\ last' = Call(op, <<>>, "returned", exc, "", <<>>, <<>>, <<>>)
    /\ connection' = connection

disconnect ==
    /\ disconnect_body("disconnect", "")
    /\ UNCHANGED <<schema, pc>>

---------------------------------------------------------------------------
(* _execute_query and the query methods *)

\* The entry of a connection's stmts for the query q.
Sent(q) == <<"query">>

\* The queries among the statements the connection c has sent.
Queries(c) == Cardinality({i \in 1..Len(c.stmts) : c.stmts[i] = <<"query">>})

\* Whether the server can run the statement: the text parses, and a LIMIT is not negative.
ServerRuns(q) == q[1] # "SELEC oops" /\ (Len(q) = 2 => q[2] >= 0)

\* Columns of the result of q: the three named columns of the distinct-dishes
\* query, all the columns of the table ("*") for the others.
Columns(q) ==
    IF q[1] = "SELECT distinct dish_name, id, category_id FROM restaurant.dish"
    THEN <<"dish_name", "id", "category_id">>
    ELSE <<"*">>

\* Rows of the result of q on a table of `rows` rows: a LIMIT caps them.
Rows(q, rows) == IF Len(q) = 2 /\ q[2] < rows THEN q[2] ELSE rows

\* What `except Exception` does with the error of pd.read_sql.
OnQueryError_propagate(op, arg, q, exc) == Call(op, arg, "raised", exc, "", <<>>, q, <<>>)
OnQueryError(op, arg, q, exc) == Call(op, arg, "returned", exc, "", <<MsgQueryError>>, q, <<EmptyDataFrame>>)

\* _execute_query(query), run on behalf of the method `op` called with `arg`.
\* The server's part is chosen where the statement reaches it:
\*   dbErr     the server fails the statement for a reason of its own
\*   rows      rows of the table
_execute_query(op, arg, q) ==
    IF connection = NoConnection
    THEN \* pd.read_sql on None
         /\ last' = OnQueryError(op, arg, q, "AttributeError")
         /\ UNCHANGED conns
    ELSE IF conns[connection].closed # 0
    THEN \* "connection already closed"
         /\ last' = OnQueryError(op, arg, q, "InterfaceError")
         /\ UNCHANGED conns
    ELSE IF ~conns[connection].alive
    THEN \* the server dropped the session: the object finds out and marks itself broken
         /\ last' = OnQueryError(op, arg, q, "OperationalError")
         /\ conns' = [conns EXCEPT ![connection].closed = 2]
    ELSE /\ Queries(conns[connection]) < MaxQueries
         /\ \E dbErr \in BOOLEAN :
               IF conns[connection].aborted \/ ~ServerRuns(q) \/ dbErr
               THEN \* the statement fails; pandas rolls the transaction back and raises
                    /\ last' = OnQueryError(op, arg, q, "DatabaseError")
                    /\ conns' = [conns EXCEPT ![connection].stmts = Append(@, Sent(q)),
                                              ![connection].aborted = FALSE]
               ELSE /\ \E rows \in TableRows :
                          last' = Call(op, arg, "returned", "", "", <<>>, q,
                                       <<[rows |-> Rows(q, rows), cols |-> Columns(q)]>>)
                    /\ conns' = [conns EXCEPT ![connection].stmts = Append(@, Sent(q))]

\* A query method: it hands its query to _execute_query and returns what that returns.
run_query(op, arg, q) ==
    /\ _execute_query(op, arg, q)
    /\ UNCHANGED <<schema, connection, pc>>

get_all_dishes == run_query("get_all_dishes", <<>>, <<"SELECT * FROM restaurant.dish">>)

get_distinct_dishes ==
    run_query("get_distinct_dishes", <<>>, <<"SELECT distinct dish_name, id, category_id FROM restaurant.dish">>)

get_all_dish_categories ==
    run_query("get_all_dish_categories", <<>>, <<"SELECT * FROM restaurant.dish_category">>)

execute_query == \E query \in CallerQueries : run_query("execute_query", <<query>>, <<query>>)

\* `if first_n_rows > 50_000: first_n_rows = 50_000`
ClampRows_floor(n) == IF n < RowCap THEN RowCap ELSE n
ClampRows(n) == IF n > RowCap THEN RowCap ELSE n

\* f'SELECT * FROM iikoconnector.iiko_receiptitems ORDER BY "ItemSaleEvent_Id" ASC LIMIT {first_n_rows}'
ReceiptItemsQuery(n) ==
    <<"SELECT * FROM iikoconnector.iiko_receiptitems ORDER BY \"ItemSaleEvent_Id\" ASC LIMIT ", n>>

\* get_all_iiko_receipt_items(first_n_rows=1000): arg is <<>> for a call
\* without the argument, <<n>> for a call with first_n_rows = n.
get_all_iiko_receipt_items ==
    \E arg \in {<<>>} \cup {<<n>> : n \in FirstNRows} :
        LET first_n_rows == IF arg = <<>> THEN DefaultFirstNRows ELSE arg[1]
        IN run_query("get_all_iiko_receipt_items", arg, ReceiptItemsQuery(ClampRows(first_n_rows)))

---------------------------------------------------------------------------
(* the with statement: __enter__ and __exit__ *)

\* __enter__: connect(), then `return self`; the block is entered only if it returns.
__enter__ ==
    /\ pc = "outside"
    /\ \E accepted \in BOOLEAN : connect_body("__enter__", accepted)
    /\ pc' = IF last'.outcome = "returned" THEN "body" ELSE "outside"
    /\ UNCHANGED schema

\* __exit__(exc_type, exc_val, exc_tb): disconnect(); returns None, so an
\* exception raised by the body (bodyExc) goes on to the caller.
exit_onlyOnSuccess(bodyExc) ==
    /\ pc = "body"
    /\ IF bodyExc = ""
       THEN disconnect_body("__exit__", bodyExc)
       ELSE /\ last' = Call("__exit__", <<>>, "returned", bodyExc, "", <<>>, <<>>, <<>>)
            /\ UNCHANGED <<connection, conns>>
    /\ pc' = "outside"
    /\ UNCHANGED schema
__exit__(bodyExc) ==
    /\ pc = "body"
    /\ disconnect_body("__exit__", bodyExc)
    /\ pc' = "outside"
    /\ UNCHANGED schema

with_exit == \E bodyExc \in {"", "Exception"} : __exit__(bodyExc)

---------------------------------------------------------------------------
(* the environment *)

\* The server or the network drops the session of the wrapper's connection.
ServerDrop ==
    /\ connection # NoConnection
    /\ conns[connection].closed = 0 /\ conns[connection].alive
    /\ conns' = [conns EXCEPT ![connection].alive = FALSE]
    /\ UNCHANGED <<schema, connection, pc, last>>

---------------------------------------------------------------------------

Next ==
    \/ connect
    \/ disconnect
    \/ get_all_dishes
    \/ get_distinct_dishes
    \/ get_all_dish_categories
    \/ execute_query
    \/ get_all_iiko_receipt_items
    \/ __enter__
    \/ with_exit
    \/ ServerDrop

Spec == Init /\ [][Next]_vars

TypeOK ==
    /\ schema \in Schemas
    /\ connection \in 0..Len(conns)
    /\ Len(conns) <= MaxConns
    /\ pc \in {"outside", "body"}
    /\ last.outcome \in {"returned", "raised"}

---------------------------------------------------------------------------
(* Properties *)

\* The wrapper holds a connection object whose .closed attribute is 0.
HoldsOpen == connection # NoConnection /\ conns[connection].closed = 0

\* The connection objects that are open.
OpenConns == {c \in 1..Len(conns) : conns[c].closed = 0}

QueryOps == {"get_all_dishes", "get_distinct_dishes", "get_all_dish_categories",
             "execute_query", "get_all_iiko_receipt_items"}

\* A step of a query method: every call records its name in last, and the
\* only other steps that leave a query's name there are the environment's.
QueryStep == last'.op \in QueryOps /\ ~ServerDrop

\* C1: once __exit__ has returned, the connection the wrapper holds is
\* closed, whether the body of the with-block ended normally or raised, and
\* whatever the body did with the wrapper.
C1_ExitClosesConnection ==
    last.op = "__exit__" =>
        /\ last.outcome = "returned"
        /\ connection # NoConnection
        /\ conns[connection].closed # 0

\* A with-block whose body ran a query and then raised: __exit__ closed the connection.
C1_Witness ==
    /\ last.op = "__exit__"
    /\ last.exc = "Exception"
    /\ last.printed = <<MsgClosed>>
    /\ conns[connection].closedBy = "disconnect"
    /\ \E i \in 1..Len(conns[connection].stmts) : conns[connection].stmts[i] = <<"query">>

\* C2: a connect() that returns leaves the wrapper holding an open
\* connection; a connect() that the server refuses raises and leaves no
\* open session on the wrapper, in whatever state connect() was called.
C2_ConnectSessionOrNone ==
    last.op = "connect" =>
        /\ last.outcome = "returned" => HoldsOpen
        /\ (last.outcome = "raised" /\ last.stage = "open") => ~HoldsOpen

\* C3: disconnect() always returns; on an open connection it closes it and
\* reports it, otherwise it changes nothing and prints nothing; after it a
\* further disconnect() finds nothing to close.
C3_DisconnectIdempotent ==
    [][disconnect =>
          /\ last'.outcome = "returned"
          /\ connection' = connection
          /\ IF connection # NoConnection /\ conns[connection].closed = 0
             THEN /\ conns'[connection].closed = 1
                  /\ last'.printed = <<MsgClosed>>
                  /\ \A c \in 1..Len(conns) : c # connection => conns'[c] = conns[c]
             ELSE /\ conns' = conns
                  /\ last'.printed = <<>>
          /\ ~(connection' # NoConnection /\ conns'[connection'].closed = 0)]_vars

\* A disconnect() that found the connection already closed by an earlier disconnect().
C3_Witness ==
    /\ last.op = "disconnect"
    /\ last.printed = <<>>
    /\ connection # NoConnection
    /\ conns[connection].closedBy = "disconnect"

\* C4: a query method never raises; when the query fails (no connection,
\* closed or dropped connection, failed transaction, statement the server
\* rejects) it prints the error and returns the empty table.
C4_QueryNeverRaises ==
    [][QueryStep =>
          /\ last'.op \in QueryOps
          /\ last'.outcome = "returned"
          /\ Len(last'.result) = 1
          /\ (\/ connection = NoConnection
              \/ conns[connection].closed # 0
              \/ ~conns[connection].alive
              \/ conns[connection].aborted
              \/ last'.query[1] = "SELEC oops"
              \/ last'.exc # "")
             => /\ last'.result[1] = [rows |-> 0, cols |-> <<>>]
                /\ last'.printed = <<MsgQueryError>>]_vars

\* A malformed query sent on an open connection came back as the empty table.
C4_Witness ==
    /\ last.op = "execute_query"
    /\ last.query = <<"SELEC oops">>
    /\ last.outcome = "returned"
    /\ last.result = <<EmptyDataFrame>>
    /\ HoldsOpen
    /\ conns[connection].stmts # <<>>

\* C5: get_all_iiko_receipt_items(n) hands _execute_query the receipt-items
\* query with LIMIT min(n, 50000), n being 1000 when the argument is left out.
C5_LimitIsMin ==
    last.op = "get_all_iiko_receipt_items" =>
        LET n == IF last.arg = <<>> THEN 1000 ELSE last.arg[1]
        IN /\ Len(last.query) = 2
           /\ last.query[1] = "SELECT * FROM iikoconnector.iiko_receiptitems ORDER BY \"ItemSaleEvent_Id\" ASC LIMIT "
           /\ last.query[2] = (IF n <= 50000 THEN n ELSE 50000)
           /\ last.query[2] <= 50000

\* A request for 100000 rows ran on an open connection with LIMIT 50000.
C5_Witness ==
    /\ last.op = "get_all_iiko_receipt_items"
    /\ last.arg = <<100000>>
    /\ last.query[2] = 50000
    /\ last.exc = ""
    /\ HoldsOpen

\* C6: whenever connect() raises, it has printed the connection error first.
C6_ConnectFailureLogged ==
    (last.op \in {"connect", "__enter__"} /\ last.outcome = "raised")
        => last.printed = <<MsgConnectError>>

\* C7: the handle the wrapper holds is absent or open, never a closed
\* handle (a session the server dropped set aside).
C7_HandleAbsentOrOpen ==
    \/ connection = NoConnection
    \/ conns[connection].closed = 0
    \/ conns[connection].closed = 2

\* C8: at most one connection created by the wrapper is open, and a
\* connection the wrapper no longer holds was closed by disconnect() (a
\* session the server dropped set aside).
C8_AtMostOneSession ==
    /\ Cardinality(OpenConns) <= 1
    /\ \A c \in 1..Len(conns) :
          c # connection => (conns[c].closedBy = "disconnect" \/ conns[c].closed = 2)

\* C9: when entering the with-block fails at the search-path statement, the
\* wrapper is left without an open connection.
C9_FailedEnterReleases ==
    (last.op = "__enter__" /\ last.outcome = "raised" /\ last.stage = "search_path")
        => ~HoldsOpen

\* A schema was configured: the caller passed a name.
SchemaConfigured == schema \notin {NoSchema, ""}

\* C10: with a schema configured, the SET search_path statement for it is
\* the first statement of every connection that has sent any, and a
\* connect() that returned has sent it; with none configured no connection
\* ever sends a SET statement; construction creates no connection.
C10_SearchPathFirst ==
    /\ SchemaConfigured =>
          /\ \A c \in 1..Len(conns) :
                conns[c].stmts # <<>> => conns[c].stmts[1] = <<"SET search_path TO ", schema>>
          /\ (last.op \in {"connect", "__enter__"} /\ last.outcome = "returned")
                => conns[connection].stmts = <<<<"SET search_path TO ", schema>>>>
    /\ ~SchemaConfigured =>
          \A c \in 1..Len(conns) : \A i \in 1..Len(conns[c].stmts) : conns[c].stmts[i] = <<"query">>
    /\ last.op = "__init__" => (connection = NoConnection /\ conns = <<>>)

\* A query ran on a connection opened with a schema: the SET statement precedes it.
C10_Witness ==
    /\ schema = "restaurant"
    /\ last.op = "get_all_dishes"
    /\ HoldsOpen
    /\ conns[connection].stmts = <<<<"SET search_path TO ", "restaurant">>, <<"query">>>>
====
